---- MODULE Spec2Model ----
(***************************************************************************)
(* Fixed-window rate limiter of cloudnode-pro/ratelimit (src/src/RateLimit.ts). *)
(* State: the static registry RateLimit.#instances, every instance ever    *)
(* constructed (name, limit, timeWindow, #deleted, #attempts), the clock   *)
(* Date.now(), and the outcome of the last call.                           *)
(***************************************************************************)
EXTENDS Integers, Sequences, FiniteSets, TLC

\* ---------------------------------------------------------------- bounds
\* Instances constructed in one run (live ones and stale handles together).
MaxInst == 2
\* The same, in the runs that explore the counter store of one limiter.
MaxStoreInst == 1
\* How far above the limit the inputs may drive a stored count.
MaxOver == 1
\* Clock reading (ms) when the process starts; Date.now() is far above any
\* count + timeWindow * 1000.
StartNow == 1000000

\* ---------------------------------------------------------------- inputs
\* Names the registry is asked about, and the ones limiters are constructed with.
AllNames == {"a", ""}
Names == {"a"}
\* Names of the runs with two limiters side by side, and every name a run may
\* ask the registry about.
BothNames == {"a", "b"}
RegistryNames == AllNames \cup BothNames
Sources == {"s1", "s2"}
\* Sources used in the runs that construct limiters again and again.
LifeSources == {"s1"}
Limits == {1, 2}
TimeWindows == {1}
Weights == {-1, 1, 2}
Remainings == {-1, 1, 3}
\* Clock readings, in ms after the first one: inside the first window, at its
\* last instant and past it.
Offsets == {0, 1000, 1001}
Times == {StartNow + d : d \in Offsets}
\* Stored counts the inputs may produce on a limiter of the given limit.
Counts(limit) == -1..(limit + MaxOver)

\* ---------------------------------------------------------------- values
\* Map.get(source) of a source without entry (undefined).
NoEntry == <<>>
\* RateLimit.get(name) of a name without instance (null); instances are 1..Len(objs).
Null == 0
\* No AttemptResult (a void method, or a call that threw).
NoResult == <<>>
NoArgs == <<>>
\* A call that names no limiter, or no source.
NoName == "-"
NoSource == "-"

VARIABLES
    instances,  \* static #instances: name -> instance (Null when absent)
    objs,       \* every instance constructed so far, in construction order
    now,        \* Date.now()
    last,       \* the last call: what was called and what came out
    untouched,  \* history: instances on which nothing but check was called
    run,        \* history: per (instance, source), the attempts of the current window
    settings    \* the object RateLimit.settings, which every instance's settings field refers to

vars == <<instances, objs, now, last, untouched, run, settings>>

\* ------------------------------------------------------- pure functions
\* timeWindow * 1000
WindowMs(timeWindow) == timeWindow * 1000

\* Mutant: Math.floor(x / 1000).
FloorSeconds(x) == x \div 1000

\* Math.ceil(x / 1000) for an integer x.
CeilSeconds(x) == 0 - ((0 - x) \div 1000)

\* Mutant: a fresh entry that already counts one attempt.
FreshEntryOne(t) == <<1, t>>

\* this.#attempts.get(source) ?? [0, Date.now()]
FreshEntry(t) == <<0, t>>

GetEntry(attempts, source, t) ==
    IF attempts[source] = NoEntry THEN FreshEntry(t) ELSE attempts[source]

\* Mutant: remaining >= 0.
AllowOrZero(remaining) == remaining >= 0

\* remaining > 0
Allow(remaining) == remaining > 0

\* Mutant: check() rolls an expired window over before it reports.
CheckResultRolled(o, self, source, t) ==
    LET stored == GetEntry(o.attempts, source, t)
        attempts == IF stored[2] + WindowMs(o.timeWindow) < t THEN <<0, t>> ELSE stored
        remaining == o.limit - attempts[1]
        reset == CeilSeconds((attempts[2] + WindowMs(o.timeWindow)) - t)
    IN  [limit |-> o.limit, remaining |-> remaining, reset |-> reset,
         rateLimit |-> self, allow |-> Allow(remaining)]

\* check(), lines 71-80: the AttemptResult of source on limiter o (instance self).
CheckResult(o, self, source, t) ==
    LET attempts == GetEntry(o.attempts, source, t)
        remaining == o.limit - attempts[1]
        reset == CeilSeconds((attempts[2] + WindowMs(o.timeWindow)) - t)
    IN  [limit |-> o.limit, remaining |-> remaining, reset |-> reset,
         rateLimit |-> self, allow |-> Allow(remaining)]

\* Mutant: data[1] + (this.timeWindow * 1000) <= Date.now()
ExpiredAtEnd(data, timeWindow, t) == data[2] + WindowMs(timeWindow) <= t

\* Mutant: a window never expires.
ExpiredNever(data, timeWindow, t) == FALSE

\* data[1] + (this.timeWindow * 1000) < Date.now()
Expired(data, timeWindow, t) == data[2] + WindowMs(timeWindow) < t

\* Mutant: a sliding window, every attempt restarts it.
RolloverSliding(data, timeWindow, t) ==
    IF data[2] + WindowMs(timeWindow) < t THEN <<0, t>> ELSE <<data[1], t>>

\* Mutant: the rollover restarts the window and keeps the count.
RolloverKeepCount(data, timeWindow, t) ==
    IF data[2] + WindowMs(timeWindow) < t THEN <<data[1], t>> ELSE data

\* if expired: data[0] = 0; data[1] = Date.now()
Rollover(data, timeWindow, t) ==
    IF Expired(data, timeWindow, t) THEN <<0, t>> ELSE data

\* Mutant: the weight is not added.
IncrementNone(data, weight) == data

\* Mutant: data[0] = attempts.
IncrementAssign(data, weight) == <<weight, data[2]>>

\* data[0] += attempts
Increment(data, weight) == <<data[1] + weight, data[2]>>

\* attempt(), lines 94-102: the limiter after the entry is rolled, incremented and stored.
AttemptStore(o, source, weight, t) ==
    [o EXCEPT !.attempts[source] =
        Increment(Rollover(GetEntry(o.attempts, source, t), o.timeWindow, t), weight)]

\* Mutant: the entry is zeroed where it is, not deleted.
ResetStoreZero(o, source) ==
    [o EXCEPT !.attempts[source] = IF @ = NoEntry THEN @ ELSE <<0, @[2]>>]

\* Mutant: reset removes the entry of every source of the limiter.
ResetStoreAll(o, source) == [o EXCEPT !.attempts = [s \in Sources |-> NoEntry]]

\* this.#attempts.delete(source)
ResetStore(o, source) == [o EXCEPT !.attempts[source] = NoEntry]

\* Mutant: data[0] = remaining.
SetCountRaw(data, limit, remaining) == <<remaining, data[2]>>

\* data[0] = this.limit - remaining
SetCount(data, limit, remaining) == <<limit - remaining, data[2]>>

\* setRemaining(), lines 125-127
SetRemainingStore(o, source, remaining, t) ==
    [o EXCEPT !.attempts[source] =
        SetCount(GetEntry(o.attempts, source, t), o.limit, remaining)]

\* Mutant: clear() leaves the entries where they are.
ClearStoreNothing(o) == o

\* this.#attempts.clear()
ClearStore(o) == [o EXCEPT !.attempts = [s \in Sources |-> NoEntry]]

\* Mutant: delete() sets #deleted and keeps the entries.
DeleteStoreUncleared(o) == [o EXCEPT !.deleted = TRUE]

\* Mutant: delete() clears the entries and does not set #deleted.
DeleteStoreUnmarked(o) == ClearStore(o)

\* delete(), lines 156-157: this.clear(); this.#deleted = true
DeleteStore(o) == [ClearStore(o) EXCEPT !.deleted = TRUE]

\* Mutant: cleanup() removes nothing.
CleanupRemovesNothing(data, timeWindow, t) == FALSE

\* cleanup(), line 146-147: "[source, [attempts]]" binds attempts to element 0 of
\* the stored pair, the count; the test adds the window to it.
CleanupRemoves(data, timeWindow, t) == data[1] + WindowMs(timeWindow) < t

\* cleanup(), lines 145-148
CleanupStore(o, t) ==
    [o EXCEPT !.attempts = [s \in Sources |->
        IF o.attempts[s] # NoEntry /\ CleanupRemoves(o.attempts[s], o.timeWindow, t)
        THEN NoEntry ELSE o.attempts[s]]]

\* The sources of limiter o whose stored window has expired at t, by the test of
\* attempt() (line 96).
ExpiredSources(o, t) ==
    {s \in Sources : o.attempts[s] # NoEntry /\ Expired(o.attempts[s], o.timeWindow, t)}

\* Mutant: the constructor does not look the name up.
HasNever(reg, name) == FALSE

\* RateLimit.#instances.has(name)
Has(reg, name) == reg[name] # Null

\* Mutant: the lookup finds nothing.
GetNothing(name) == Null

\* static get(name): RateLimit.#instances.get(name) ?? null
Get(name) == instances[name]

\* Mutant: the constructor does not keep the name.
NewObjectUnnamed(name, limit, timeWindow) ==
    [name |-> "", limit |-> limit, timeWindow |-> timeWindow, deleted |-> FALSE,
     attempts |-> [s \in Sources |-> NoEntry]]

\* The object the constructor builds (field initialisers and lines 57-59).
NewObject(name, limit, timeWindow) ==
    [name |-> name, limit |-> limit, timeWindow |-> timeWindow, deleted |-> FALSE,
     attempts |-> [s \in Sources |-> NoEntry]]

\* static settings = {sendHeaders: true, headers: {...}, resetHeaderValue,
\* defaultResponse}: whether request() sends the RateLimit-* headers, and which
\* function answers a refused request ("default" is the built-in 429 response).
DefaultSettings == [sendHeaders |-> TRUE, defaultResponse |-> "default"]

\* Object.assign(target, source): the properties of source are written into target.
Assign(target, source) ==
    [k \in DOMAIN target \cup DOMAIN source |->
        IF k \in DOMAIN source THEN source[k] ELSE target[k]]

\* this.settings of instance self: the field is initialised with
\* RateLimit.settings, the object itself, not a copy of it.
SettingsOf(self) == settings

\* ---------------------------------------------------------- bookkeeping
\* The record of one call: the method, the instance it ran on or returned
\* (Null when none), the name it looked up or constructed, the source and the
\* arguments it used (for cleanup: the sources whose window had expired), the
\* error it threw, the AttemptResult it returned, whether
\* the source (for clear: any source) had an entry before it, and (attempt only) the entry as read
\* before the rollover.
Call(op, inst, name, source, args, err, res, had, pre) ==
    [op |-> op, inst |-> inst, name |-> name, source |-> source,
     args |-> args, err |-> err, res |-> res, had |-> had, pre |-> pre]

\* A call that returned without AttemptResult.
Done(op, inst, name, source, args, had) ==
    Call(op, inst, name, source, args, "none", NoResult, had, NoEntry)

\* A call that threw: the Error says which kind and which limiter or name, the
\* same for every method.
Failed(inst, name, err) ==
    Call("throw", inst, name, NoSource, NoArgs, err, NoResult, FALSE, NoEntry)

NoCall == Done("none", Null, NoName, NoSource, NoArgs, FALSE)

Insts == 1..Len(objs)
Active(i) == i \in Insts /\ ~objs[i].deleted
Stored(i, source) == objs[i].attempts[source]

ZeroRun == [n |-> 0, allowed |-> 0, first |-> TRUE]

Init ==
    /\ instances = [n \in RegistryNames |-> Null]
    /\ objs = <<>>
    /\ now = StartNow
    /\ last = NoCall
    /\ untouched = {}
    /\ run = [i \in 1..MaxInst |-> [s \in Sources |-> ZeroRun]]
    /\ settings = DefaultSettings

\* ------------------------------------------------------ instance methods
\* Each method body is written once, for the instance self it runs on; the
\* static method of the same name resolves a name and runs it.

\* Mutant: a call that throws after it has cleared the entries.
ThrowsAfterClear(call) ==
    /\ last' = call
    /\ objs' = [i \in DOMAIN objs |-> ClearStore(objs[i])]
    /\ UNCHANGED <<instances, now, untouched>>

\* A call that throws: nothing is stored.
Throws(call) ==
    /\ last' = call
    /\ UNCHANGED <<instances, objs, now, untouched>>

\* A call that returns, leaving the limiters as they are.
Returns(call) ==
    /\ last' = call
    /\ UNCHANGED <<instances, objs, now>>

\* A call that returns after replacing limiter self by o.
Stores(self, o, call) ==
    /\ objs' = [objs EXCEPT ![self] = o]
    /\ last' = call
    /\ untouched' = untouched \ {self}
    /\ UNCHANGED <<instances, now>>

\* Mutant: a deleted instance answers as an unknown name does.
DeletedAsUnknown(self) == Throws(Failed(self, NoName, "UnknownName"))

\* "Rate limit ... has been deleted. Construct a new instance"
Deleted(self) == Throws(Failed(self, NoName, "DeletedInstance"))

\* "Rate limit with name ... does not exist"
Unknown(name) == Throws(Failed(Null, name, "UnknownName"))

DoCheck(self, source) ==
    IF objs[self].deleted THEN Deleted(self)
    ELSE /\ Returns(Call("check", self, NoName, source, NoArgs, "none",
                         <<CheckResult(objs[self], self, source, now)>>,
                         Stored(self, source) # NoEntry, NoEntry))
         /\ UNCHANGED untouched

DoAttempt(self, source, weight) ==
    IF objs[self].deleted THEN Deleted(self)
    ELSE LET o == AttemptStore(objs[self], source, weight, now)
         IN  /\ o.attempts[source][1] \in Counts(o.limit)
             /\ Stores(self, o,
                       Call("attempt", self, NoName, source, <<weight>>, "none",
                            <<CheckResult(o, self, source, now)>>,
                            Stored(self, source) # NoEntry, Stored(self, source)))

DoReset(self, source) ==
    IF objs[self].deleted THEN Deleted(self)
    ELSE Stores(self, ResetStore(objs[self], source),
                Done("reset", self, NoName, source, NoArgs, Stored(self, source) # NoEntry))

DoSetRemaining(self, source, remaining) ==
    IF objs[self].deleted THEN Deleted(self)
    ELSE LET o == SetRemainingStore(objs[self], source, remaining, now)
         IN  /\ o.attempts[source][1] \in Counts(o.limit)
             /\ Stores(self, o,
                       Done("setRemaining", self, NoName, source, <<remaining>>,
                            Stored(self, source) # NoEntry))

DoClear(self) ==
    IF objs[self].deleted THEN Deleted(self)
    ELSE Stores(self, ClearStore(objs[self]),
                Done("clear", self, NoName, NoSource, NoArgs,
                     \E s \in Sources : Stored(self, s) # NoEntry))

DoCleanup(self) ==
    IF objs[self].deleted THEN Deleted(self)
    ELSE Stores(self, CleanupStore(objs[self], now),
                Done("cleanup", self, NoName, NoSource,
                     <<ExpiredSources(objs[self], now)>>, FALSE))

\* Mutant: delete leaves the instance in the registry.
DoDeleteKeepsName(self) ==
    IF objs[self].deleted THEN Deleted(self)
    ELSE /\ objs' = [objs EXCEPT ![self] = DeleteStore(objs[self])]
         /\ last' = Done("delete", self, NoName, NoSource, NoArgs, FALSE)
         /\ untouched' = untouched \ {self}
         /\ UNCHANGED <<instances, now>>

\* Mutant: delete without the deleted test of clear().
DoDeleteUnguarded(self) ==
    /\ objs' = [objs EXCEPT ![self] = DeleteStore(objs[self])]
    /\ instances' = [instances EXCEPT ![objs[self].name] = Null]
    /\ last' = Done("delete", self, NoName, NoSource, NoArgs, FALSE)
    /\ untouched' = untouched \ {self}
    /\ UNCHANGED now

\* delete(): this.clear() throws on a deleted instance before anything is changed.
DoDelete(self) ==
    IF objs[self].deleted THEN Deleted(self)
    ELSE /\ objs' = [objs EXCEPT ![self] = DeleteStore(objs[self])]
         /\ instances' = [instances EXCEPT ![objs[self].name] = Null]
         /\ last' = Done("delete", self, NoName, NoSource, NoArgs, FALSE)
         /\ untouched' = untouched \ {self}
         /\ UNCHANGED now

\* constructor(name, limit, timeWindow), reached by new or by static create (op);
\* max bounds the instances of the run.
DoNew(op, name, limit, timeWindow, max) ==
    IF Has(instances, name)
    THEN Throws(Failed(Null, name, "DuplicateName"))
    ELSE /\ Len(objs) < max
         /\ objs' = Append(objs, NewObject(name, limit, timeWindow))
         /\ instances' = [instances EXCEPT ![name] = Len(objs) + 1]
         /\ last' = Done(op, Len(objs) + 1, name, NoSource, <<limit, timeWindow>>, FALSE)
         /\ untouched' = untouched \cup {Len(objs) + 1}
         /\ UNCHANGED now

\* ------------------------------------------------------------- actions
\* Date.now() moves on between two calls; it never goes back.
Tick ==
    /\ \E t \in Times : t > now /\ now' = t
    /\ last' = Done("tick", Null, NoName, NoSource, NoArgs, FALSE)
    /\ UNCHANGED <<instances, objs, untouched, run, settings>>

New(name, limit, timeWindow, max) ==
    /\ DoNew("new", name, limit, timeWindow, max)
    /\ UNCHANGED <<run, settings>>

Check(self, source) ==
    /\ self \in Insts
    /\ DoCheck(self, source)
    /\ UNCHANGED <<run, settings>>

Attempt(self, source, weight) ==
    /\ self \in Insts
    /\ DoAttempt(self, source, weight)
    /\ UNCHANGED <<run, settings>>

Reset(self, source) ==
    /\ self \in Insts
    /\ DoReset(self, source)
    /\ UNCHANGED <<run, settings>>

SetRemaining(self, source, remaining) ==
    /\ self \in Insts
    /\ DoSetRemaining(self, source, remaining)
    /\ UNCHANGED <<run, settings>>

Clear(self) ==
    /\ self \in Insts
    /\ DoClear(self)
    /\ UNCHANGED <<run, settings>>

Cleanup(self) ==
    /\ self \in Insts
    /\ DoCleanup(self)
    /\ UNCHANGED <<run, settings>>

Delete(self) ==
    /\ self \in Insts
    /\ DoDelete(self)
    /\ UNCHANGED <<run, settings>>

\* Mutant: assigning the limit shifts every stored count, so that remaining stays.
SetLimitKeepsRemaining(self, limit) ==
    /\ Active(self)
    /\ Stores(self,
              [objs[self] EXCEPT
                  !.limit = limit,
                  !.attempts = [s \in Sources |->
                      IF objs[self].attempts[s] = NoEntry THEN NoEntry
                      ELSE <<objs[self].attempts[s][1] + (limit - objs[self].limit),
                             objs[self].attempts[s][2]>>]],
              Done("setLimit", self, NoName, NoSource, <<limit>>, FALSE))
    /\ UNCHANGED <<run, settings>>

\* rateLimit.limit = limit (a public field), on a limiter still in use.
SetLimit(self, limit) ==
    /\ Active(self)
    /\ Stores(self, [objs[self] EXCEPT !.limit = limit],
              Done("setLimit", self, NoName, NoSource, <<limit>>, FALSE))
    /\ UNCHANGED <<run, settings>>

StaticGet(name) ==
    /\ Returns(Done("get", Get(name), name, NoSource, NoArgs, FALSE))
    /\ UNCHANGED <<untouched, run, settings>>

StaticCheck(name, source) ==
    /\ IF Get(name) = Null THEN Unknown(name) ELSE DoCheck(Get(name), source)
    /\ UNCHANGED <<run, settings>>

StaticAttempt(name, source, weight) ==
    /\ IF Get(name) = Null THEN Unknown(name)
       ELSE DoAttempt(Get(name), source, weight)
    /\ UNCHANGED <<run, settings>>

StaticReset(name, source) ==
    /\ IF Get(name) = Null THEN Unknown(name) ELSE DoReset(Get(name), source)
    /\ UNCHANGED <<run, settings>>

StaticSetRemaining(name, source, remaining) ==
    /\ IF Get(name) = Null THEN Unknown(name)
       ELSE DoSetRemaining(Get(name), source, remaining)
    /\ UNCHANGED <<run, settings>>

StaticClear(name) ==
    /\ IF Get(name) = Null THEN Unknown(name) ELSE DoClear(Get(name))
    /\ UNCHANGED <<run, settings>>

StaticDelete(name) ==
    /\ IF Get(name) = Null THEN Unknown(name) ELSE DoDelete(Get(name))
    /\ UNCHANGED <<run, settings>>

\* static cleanup(name?) called without argument.
Undefined == "undefined"
\* if (name): the empty string and undefined are falsy.
Truthy(name) == name # "" /\ name # Undefined

\* for (const rateLimit of RateLimit.#instances.values()) rateLimit.cleanup():
\* the registered limiters in insertion order, which is construction order,
\* from instance i on; a deleted one throws and ends the loop.
RECURSIVE CleanupAll(_, _, _)
CleanupAll(os, reg, i) ==
    IF i > Len(os) THEN os
    ELSE IF reg[os[i].name] # i THEN CleanupAll(os, reg, i + 1)
    ELSE IF os[i].deleted THEN os
    ELSE CleanupAll([os EXCEPT ![i] = CleanupStore(os[i], now)], reg, i + 1)

StaticCleanup(name) ==
    /\ IF Truthy(name)
       THEN IF Get(name) = Null THEN Unknown(name) ELSE DoCleanup(Get(name))
       ELSE LET registered == {i \in Insts : instances[objs[i].name] = i}
                thrown == \E i \in registered : objs[i].deleted
            IN  /\ objs' = CleanupAll(objs, instances, 1)
                /\ last' = IF thrown
                           THEN Failed(Null, name, "DeletedInstance")
                           ELSE Done("cleanupAll", Null, name, NoSource, NoArgs, FALSE)
                /\ untouched' = untouched \ registered
                /\ UNCHANGED <<instances, now>>
    /\ UNCHANGED <<run, settings>>

\* static create(name, limit, timeWindow)
StaticCreate(name, limit, timeWindow, max) ==
    /\ IF Get(name) # Null
       THEN /\ Returns(Done("create", Get(name), name, NoSource, <<limit, timeWindow>>, FALSE))
            /\ UNCHANGED untouched
       ELSE DoNew("create", name, limit, timeWindow, max)
    /\ UNCHANGED <<run, settings>>

\* One step of a run that constructs at most max instances and uses the given
\* sources.
Step(max, sources) ==
    \/ Tick
    \/ \E name \in Names, limit \in Limits, timeWindow \in TimeWindows :
          New(name, limit, timeWindow, max)
    \/ \E self \in 1..max, source \in sources : Check(self, source)
    \/ \E self \in 1..max, source \in sources, weight \in Weights :
          Attempt(self, source, weight)
    \/ \E self \in 1..max, source \in sources : Reset(self, source)
    \/ \E self \in 1..max, source \in sources, remaining \in Remainings :
          SetRemaining(self, source, remaining)
    \/ \E self \in 1..max : Clear(self)
    \/ \E self \in 1..max : Cleanup(self)
    \/ \E self \in 1..max : Delete(self)
    \/ \E self \in 1..max, limit \in Limits : SetLimit(self, limit)
    \/ \E name \in AllNames : StaticGet(name)
    \/ \E name \in AllNames, source \in sources : StaticCheck(name, source)
    \/ \E name \in AllNames, source \in sources, weight \in Weights :
          StaticAttempt(name, source, weight)
    \/ \E name \in AllNames, source \in sources : StaticReset(name, source)
    \/ \E name \in AllNames, source \in sources, remaining \in Remainings :
          StaticSetRemaining(name, source, remaining)
    \/ \E name \in AllNames : StaticClear(name)
    \/ \E name \in AllNames \cup {Undefined} : StaticCleanup(name)
    \/ \E name \in AllNames : StaticDelete(name)
    \/ \E name \in Names, limit \in Limits, timeWindow \in TimeWindows :
          StaticCreate(name, limit, timeWindow, max)

\* Limiters constructed, deleted and constructed again, one source each.
Next == Step(MaxInst, LifeSources)

Spec == Init /\ [][Next]_vars

\* One limiter and its counter store: every method, both sources.
NextStore == Step(MaxStoreInst, Sources)

SpecStore == Init /\ [][NextStore]_vars

\* Two names side by side: every method with one source, the default weight and
\* one value of remaining, at one clock reading.
NextNames ==
    \/ \E name \in BothNames, limit \in Limits, timeWindow \in TimeWindows :
          New(name, limit, timeWindow, MaxInst)
    \/ \E self \in 1..MaxInst, source \in LifeSources : Check(self, source)
    \/ \E self \in 1..MaxInst, source \in LifeSources : Attempt(self, source, 1)
    \/ \E self \in 1..MaxInst, source \in LifeSources : Reset(self, source)
    \/ \E self \in 1..MaxInst, source \in LifeSources : SetRemaining(self, source, 1)
    \/ \E self \in 1..MaxInst : Clear(self)
    \/ \E self \in 1..MaxInst : Cleanup(self)
    \/ \E self \in 1..MaxInst : Delete(self)
    \/ \E name \in RegistryNames : StaticGet(name)
    \/ \E name \in RegistryNames, source \in LifeSources : StaticCheck(name, source)
    \/ \E name \in RegistryNames, source \in LifeSources : StaticAttempt(name, source, 1)
    \/ \E name \in RegistryNames, source \in LifeSources : StaticReset(name, source)
    \/ \E name \in RegistryNames, source \in LifeSources :
          StaticSetRemaining(name, source, 1)
    \/ \E name \in RegistryNames : StaticClear(name)
    \/ \E name \in RegistryNames \cup {Undefined} : StaticCleanup(name)
    \/ \E name \in RegistryNames : StaticDelete(name)
    \/ \E name \in BothNames, limit \in Limits, timeWindow \in TimeWindows :
          StaticCreate(name, limit, timeWindow, MaxInst)

SpecNames == Init /\ [][NextNames]_vars

\* ------------------------------------------------- settings and middleware
\* Settings objects passed to the constructor: some of the properties.
SettingsArgs == {[sendHeaders |-> FALSE], [defaultResponse |-> "custom"]}

\* new RateLimit(name, limit, timeWindow, settings):
\* if (settings) Object.assign(this.settings, settings), after the name check.
NewWithSettings(name, limit, timeWindow, arg, max) ==
    /\ DoNew("newWithSettings", name, limit, timeWindow, max)
    /\ settings' = IF Has(instances, name) THEN settings
                   ELSE Assign(SettingsOf(Len(objs) + 1), arg)
    /\ UNCHANGED run

\* request(source, req, res): the headers set on res for the result of the attempt.
RequestHeaders(o, self, result) ==
    IF SettingsOf(self).sendHeaders
    THEN <<o.limit, ToString(result.remaining), ToString(result.reset)>>
    ELSE <<>>

\* Mutant: the handler calls next() whatever the result.
MiddlewareAlwaysNext(self, source, hasNext) ==
    /\ self \in Insts
    /\ IF objs[self].deleted THEN Deleted(self)
       ELSE LET o == AttemptStore(objs[self], source, 1, now)
                result == CheckResult(o, self, source, now)
                outcome == [next |-> hasNext, end |-> ~hasNext, response |-> "none"]
            IN  /\ o.attempts[source][1] \in Counts(o.limit)
                /\ Stores(self, o,
                          Call("middleware", self, NoName, source,
                               <<hasNext, outcome, RequestHeaders(o, self, result)>>,
                               "none", <<result>>,
                               Stored(self, source) # NoEntry, Stored(self, source)))
    /\ UNCHANGED <<run, settings>>

\* The handler returned by middleware(source), called with a request whose
\* source(req) is source, with or without a next function: request() makes the
\* attempt and sets the headers; a refused request goes to response(), which
\* calls settings.defaultResponse of the limiter registered under this name; an
\* allowed one goes to next(), or to res.end() when there is no next.
Middleware(self, source, hasNext) ==
    /\ self \in Insts
    /\ IF objs[self].deleted THEN Deleted(self)
       ELSE LET o == AttemptStore(objs[self], source, 1, now)
                result == CheckResult(o, self, source, now)
                outcome == IF ~result.allow
                           THEN [next |-> FALSE, end |-> FALSE,
                                 response |-> SettingsOf(Get(o.name)).defaultResponse]
                           ELSE [next |-> hasNext, end |-> ~hasNext, response |-> "none"]
            IN  /\ o.attempts[source][1] \in Counts(o.limit)
                /\ Stores(self, o,
                          Call("middleware", self, NoName, source,
                               <<hasNext, outcome, RequestHeaders(o, self, result)>>,
                               "none", <<result>>,
                               Stored(self, source) # NoEntry, Stored(self, source)))
    /\ UNCHANGED <<run, settings>>

\* Two names, constructed with and without settings, and requests through
\* their middleware, at one clock reading.
NextHttp ==
    \/ \E name \in BothNames, limit \in Limits, timeWindow \in TimeWindows :
          New(name, limit, timeWindow, MaxInst)
    \/ \E name \in BothNames, limit \in Limits, timeWindow \in TimeWindows,
          arg \in SettingsArgs :
          NewWithSettings(name, limit, timeWindow, arg, MaxInst)
    \/ \E self \in 1..MaxInst, source \in LifeSources : Check(self, source)
    \/ \E self \in 1..MaxInst, source \in LifeSources, hasNext \in BOOLEAN :
          Middleware(self, source, hasNext)
    \/ \E self \in 1..MaxInst : Delete(self)

SpecHttp == Init /\ [][NextHttp]_vars


\* ------------------------------------------------------------ callbacks
\* check(source, callback) and attempt(source, attempts, callback): callback
\* says whether one was passed. A callback is modelled by what it is given and
\* what it can see: the AttemptResult handed to it and the entry of the source
\* stored at the time it runs. A call records the invocations it made, in order,
\* and whether it was passed a callback.

\* Mutant: the callback is invoked twice.
InvokeCallbackTwice(callback, result, o, source) ==
    IF callback
    THEN <<[result |-> result, stored |-> o.attempts[source]],
           [result |-> result, stored |-> o.attempts[source]]>>
    ELSE <<>>

\* if (callback) callback(result), on the limiter as it is stored then.
InvokeCallback(callback, result, o, source) ==
    IF callback
    THEN <<[result |-> result, stored |-> o.attempts[source]]>>
    ELSE <<>>

\* The deleted test is the first statement: the call throws before any callback.
DeletedBeforeCallback(self, callback) ==
    Throws([Failed(self, NoName, "DeletedInstance") EXCEPT !.args = <<<<>>, callback>>])

DoCheckCallback(self, source, callback) ==
    IF objs[self].deleted THEN DeletedBeforeCallback(self, callback)
    ELSE LET result == CheckResult(objs[self], self, source, now)
         IN  /\ Returns(Call("checkCallback", self, NoName, source,
                             <<InvokeCallback(callback, result, objs[self], source), callback>>,
                             "none", <<result>>,
                             Stored(self, source) # NoEntry, NoEntry))
             /\ UNCHANGED untouched

\* attempt stores the incremented entry, then returns this.check(source, callback).
DoAttemptCallback(self, source, weight, callback) ==
    IF objs[self].deleted THEN DeletedBeforeCallback(self, callback)
    ELSE LET o == AttemptStore(objs[self], source, weight, now)
             result == CheckResult(o, self, source, now)
         IN  /\ o.attempts[source][1] \in Counts(o.limit)
             /\ Stores(self, o,
                       Call("attemptCallback", self, NoName, source,
                            <<InvokeCallback(callback, result, o, source), callback, weight>>,
                            "none", <<result>>,
                            Stored(self, source) # NoEntry, Stored(self, source)))

CheckCallback(self, source, callback) ==
    /\ self \in Insts
    /\ DoCheckCallback(self, source, callback)
    /\ UNCHANGED <<run, settings>>

AttemptCallback(self, source, weight, callback) ==
    /\ self \in Insts
    /\ DoAttemptCallback(self, source, weight, callback)
    /\ UNCHANGED <<run, settings>>

\* One name; check and attempt with and without a callback, on instances in use
\* and deleted, while the clock moves.
NextCallback ==
    \/ Tick
    \/ \E name \in Names, limit \in Limits, timeWindow \in TimeWindows :
          New(name, limit, timeWindow, MaxInst)
    \/ \E self \in 1..MaxInst, source \in LifeSources, callback \in BOOLEAN :
          CheckCallback(self, source, callback)
    \/ \E self \in 1..MaxInst, source \in LifeSources, weight \in Weights,
          callback \in BOOLEAN :
          AttemptCallback(self, source, weight, callback)
    \/ \E self \in 1..MaxInst : Delete(self)

SpecCallback == Init /\ [][NextCallback]_vars

\* ------------------------------------------------- long after the window
\* Clock readings up to a whole second past the end of the first window, where
\* the seconds left until the end of the window are negative.
LongOffsets == Offsets \cup {2000}
LongTimes == {StartNow + d : d \in LongOffsets}

\* Date.now() moves on between two calls, over the longer stretch.
Elapse ==
    /\ \E t \in LongTimes : t > now /\ now' = t
    /\ last' = Done("tick", Null, NoName, NoSource, NoArgs, FALSE)
    /\ UNCHANGED <<instances, objs, untouched, run, settings>>

\* One limiter, checked and attempted on over that stretch.
NextLong ==
    \/ Elapse
    \/ \E name \in Names, limit \in Limits, timeWindow \in TimeWindows :
          New(name, limit, timeWindow, MaxStoreInst)
    \/ \E self \in 1..MaxStoreInst, source \in Sources : Check(self, source)
    \/ \E self \in 1..MaxStoreInst, source \in Sources, weight \in Weights :
          Attempt(self, source, weight)
    \/ \E self \in 1..MaxStoreInst, source \in Sources, remaining \in Remainings :
          SetRemaining(self, source, remaining)

SpecLong == Init /\ [][NextLong]_vars

\* ------------------------------------------- two limiters, two sources each
\* Two names side by side, each limiter used by both sources, at one clock
\* reading.
NextPairs ==
    \/ \E name \in BothNames, limit \in Limits, timeWindow \in TimeWindows :
          New(name, limit, timeWindow, MaxInst)
    \/ \E self \in 1..MaxInst, source \in Sources : Check(self, source)
    \/ \E self \in 1..MaxInst, source \in Sources : Attempt(self, source, 1)
    \/ \E self \in 1..MaxInst, source \in Sources : Reset(self, source)
    \/ \E self \in 1..MaxInst, source \in Sources : SetRemaining(self, source, 1)

SpecPairs == Init /\ [][NextPairs]_vars

\* ------------------------------------------- runs of attempt and check only
\* Limits of the limiters constructed in these runs (the README demo uses 3).
PureLimits == {1, 2, 3}

\* The history of a source after one more attempt: before and after are its
\* stored entries around the call, allow the result's allow. n counts the
\* attempts made while the stored windowStart stayed the same, allowed those of
\* them that returned allow, first says the window began with no entry.
NextRun(r, before, after, allow) ==
    LET same == before # NoEntry /\ before[2] = after[2]
    IN  [n |-> (IF same THEN r.n ELSE 0) + 1,
         allowed |-> (IF same THEN r.allowed ELSE 0) + (IF allow THEN 1 ELSE 0),
         first |-> IF before = NoEntry THEN TRUE ELSE same /\ r.first]

\* attempt(source) with the default weight, its history kept.
PureAttempt(self, source) ==
    /\ Active(self)
    /\ DoAttempt(self, source, 1)
    /\ run' = [run EXCEPT ![self][source] =
                  NextRun(run[self][source], Stored(self, source),
                          objs'[self].attempts[source], last'.res[1].allow)]
    /\ UNCHANGED settings

NextPure ==
    \/ Tick
    \/ \E name \in Names, limit \in PureLimits, timeWindow \in TimeWindows :
          New(name, limit, timeWindow, MaxStoreInst)
    \/ \E self \in 1..MaxStoreInst, source \in Sources : Check(self, source)
    \/ \E self \in 1..MaxStoreInst, source \in Sources : PureAttempt(self, source)

SpecPure == Init /\ [][NextPure]_vars

\* ---------------------------------------------------------------- claims
\* The call recorded in last, when it returned (it did not throw).
LastInst == last.inst
LastSource == last.source
LastResult == last.res[1]
LastLimit == objs[last.inst].limit
LastWindow == objs[last.inst].timeWindow
LastStored == objs[last.inst].attempts[last.source]

\* C1: in a run of attempt (weight 1) and check only, with limit and timeWindow
\* as constructed, at most limit of the attempts made on a source while its
\* stored windowStart stays the same return allow == true.
C1_AtMostLimitAllowedPerWindow ==
    \A i \in Insts, s \in Sources : run[i][s].allowed <= objs[i].limit

\* C1 witness: a source has been refused after some of its attempts in the
\* same window were allowed.
C1_Witness ==
    \E i \in Insts, s \in Sources :
        /\ run[i][s].allowed >= 1
        /\ run[i][s].n > run[i][s].allowed
        /\ run[i][s].n > objs[i].limit

\* C2 (as claimed): from no entry, inside one window, the first limit attempts
\* of weight 1 each return allow == true and the next one allow == false; for
\* limit 3 the results are remaining 2, 1, 0 and then -1.
C2_FirstLimitAttemptsAllowed ==
    (last.op = "attempt" /\ run[LastInst][LastSource].first) =>
        LET n == run[LastInst][LastSource].n
        IN  /\ n <= LastLimit => LastResult.allow
            /\ n = LastLimit + 1 => ~LastResult.allow
            /\ LastLimit = 3 => LastResult.remaining = 3 - n

\* C7 (as claimed): a source whose last attempt was refused is allowed again by
\* the first attempt of weight 1 made after its window has elapsed.
C7_AllowedAgainAfterWindow ==
    (/\ last.op = "attempt"
     /\ last.pre # NoEntry
     /\ last.pre[1] >= LastLimit
     /\ last.pre[2] + (LastWindow * 1000) < now) => LastResult.allow

C4_FreshCheckIsFull ==
    (last.op = "check" /\ LastInst \in untouched) =>
        /\ LastResult.remaining = LastLimit
        /\ LastResult.allow

\* C4 witness: check has returned on a limiter nothing else was called on.
C4_Witness == last.op = "check" /\ LastInst \in untouched /\ LastLimit > 1

\* C5: attempt(source, w) on an entry whose window has not expired returns the
\* remaining of before the call (limit minus the count then stored) minus w and
\* stores the count plus w, also when that is above the limit.
C5_RemainingDropsByWeight ==
    (/\ last.op = "attempt"
     /\ last.pre # NoEntry
     /\ ~(last.pre[2] + (LastWindow * 1000) < now)) =>
        /\ LastResult.remaining = (LastLimit - last.pre[1]) - last.args[1]
        /\ LastStored = <<last.pre[1] + last.args[1], last.pre[2]>>

\* C5 witness: an attempt on a source already at its limit was recorded and
\* returned a negative remaining.
C5_Witness ==
    /\ last.op = "attempt"
    /\ last.pre # NoEntry
    /\ ~(last.pre[2] + (LastWindow * 1000) < now)
    /\ last.pre[1] >= LastLimit
    /\ last.args[1] > 0
    /\ LastResult.remaining < 0
    /\ LastStored[1] > LastLimit

\* C6: attempt(source, w) on an entry whose window has expired stores exactly
\* (w, now) and returns remaining == limit - w, whatever the count was.
C6_RolloverCountsFromZero ==
    (/\ last.op = "attempt"
     /\ last.pre # NoEntry
     /\ last.pre[2] + (LastWindow * 1000) < now) =>
        /\ LastStored = <<last.args[1], now>>
        /\ LastResult.remaining = LastLimit - last.args[1]

\* C6 witness: an attempt rolled over an entry that held a larger count.
C6_Witness ==
    /\ last.op = "attempt"
    /\ last.pre # NoEntry
    /\ last.pre[2] + (LastWindow * 1000) < now
    /\ last.pre[1] > last.args[1]
    /\ last.pre[1] >= LastLimit

\* C8: reset(source) leaves no entry for the source, so that check then returns
\* remaining == limit; it throws on deleted limiters only, never for want of
\* an entry.
C8_ResetThenCheckIsFull ==
    /\ last.op = "reset" =>
          /\ LastStored = NoEntry
          /\ CheckResult(objs[LastInst], LastInst, LastSource, now).remaining = LastLimit
    /\ last.err = "DeletedInstance" => (last.inst = Null \/ objs[last.inst].deleted)

\* C8 witness: reset has returned on a source that had no entry, on a limiter
\* that holds an entry of another source.
C8_Witness ==
    /\ last.op = "reset"
    /\ ~last.had
    /\ LastStored = NoEntry
    /\ \E s \in Sources : objs[LastInst].attempts[s] # NoEntry

\* C9: after setRemaining(source, r), check(source) returns remaining == r,
\* whether or not the source had an entry and whether or not it had expired.
C9_SetRemainingThenCheck ==
    last.op = "setRemaining" =>
        /\ CheckResult(objs[LastInst], LastInst, LastSource, now).remaining = last.args[1]
        /\ LastStored # NoEntry

\* C9 witness: setRemaining has acted on an entry whose window had expired.
C9_Witness ==
    /\ last.op = "setRemaining"
    /\ last.had
    /\ LastStored[2] + (LastWindow * 1000) < now
    /\ last.args[1] # LastLimit

\* C10: the constructor returns a limiter only when the name is not registered;
\* under a registered name it throws DuplicateName, and that leaves the registry
\* and every limiter as they were, the limiter registered under the name still
\* not deleted.
C10_DuplicateNameChangesNothing ==
    [][/\ last'.op = "new" => instances[last'.name] = Null
       /\ last'.err = "DuplicateName" =>
              /\ instances[last'.name] # Null
              /\ instances' = instances
              /\ objs' = objs
              /\ ~objs'[instances'[last'.name]].deleted]_vars

\* C10 witness: a construction was refused while the registered limiter of the
\* name held an entry.
C10_Witness ==
    /\ last.err = "DuplicateName"
    /\ instances[last.name] # Null
    /\ \E s \in Sources : objs[instances[last.name]].attempts[s] # NoEntry

\* C11: static create never throws; under a registered name it returns the
\* registered instance and changes neither the registry nor any limiter (limit,
\* timeWindow and entries stay, the arguments are ignored); under a free name it
\* registers and returns a new instance built from its arguments.
C11_CreateReturnsExistingOrNew ==
    [][/\ \A name \in Names, limit \in Limits, timeWindow \in TimeWindows :
              StaticCreate(name, limit, timeWindow, MaxInst) => last'.op = "create"
       /\ last'.op = "create" =>
              IF instances[last'.name] # Null
              THEN /\ last'.inst = instances[last'.name]
                   /\ instances' = instances
                   /\ objs' = objs
              ELSE /\ last'.inst = Len(objs) + 1
                   /\ instances' = [instances EXCEPT ![last'.name] = last'.inst]
                   /\ objs' = Append(objs, [name |-> last'.name,
                                            limit |-> last'.args[1],
                                            timeWindow |-> last'.args[2],
                                            deleted |-> FALSE,
                                            attempts |-> [s \in Sources |-> NoEntry]])]_vars

\* C11 witness: create has returned the registered limiter, which holds an
\* entry and has another limit than the one asked for.
C11_Witness ==
    /\ last.op = "create"
    /\ last.args[1] # LastLimit
    /\ \E s \in Sources : objs[LastInst].attempts[s] # NoEntry

\* C12: a call that runs on an instance delete() has run on (check, attempt,
\* reset, setRemaining, clear, cleanup or delete; every call records the
\* instance it ran on) throws DeletedInstance and changes nothing, and no lookup
\* returns such an instance; delete leaves the instance's name unregistered, a
\* name becomes registered only by a construction (new or create), and get
\* returns what the registry holds.
C12_DeletedInstanceAlwaysThrows ==
    [][/\ (last'.inst \in Insts /\ objs[last'.inst].deleted) =>
              /\ last' = Failed(last'.inst, NoName, "DeletedInstance")
              /\ objs' = objs
              /\ instances' = instances
       /\ last'.op = "delete" =>
              /\ objs'[last'.inst].deleted
              /\ instances'[objs[last'.inst].name] = Null
       /\ \A name \in AllNames :
              (instances[name] = Null /\ instances'[name] # Null) =>
                  (last'.op \in {"new", "create"} /\ last'.name = name)
       /\ last'.op = "get" => last'.inst = instances[last'.name]]_vars

\* C12 witness: a call on a deleted instance has thrown while a new limiter of
\* the same name is registered.
C12_Witness ==
    /\ last.err = "DeletedInstance"
    /\ last.inst # Null
    /\ objs[last.inst].deleted
    /\ instances[objs[last.inst].name] # Null

\* C13: an instance is not deleted when constructed; its deleted flag turns
\* true in a delete() step on that instance and in no other step, delete() on
\* an instance that is not deleted always turns it, and once true the flag
\* stays true whatever follows; no instance is ever dropped.
C13_DeletedIsForever ==
    [][/\ Len(objs') >= Len(objs)
       /\ \A i \in 1..Len(objs') :
              IF i \in Insts
              THEN /\ objs[i].deleted => objs'[i].deleted
                   /\ (~objs[i].deleted /\ objs'[i].deleted) =>
                          (last'.op = "delete" /\ last'.inst = i)
                   /\ (last'.op = "delete" /\ last'.inst = i) =>
                          (~objs[i].deleted /\ objs'[i].deleted)
              ELSE ~objs'[i].deleted]_vars

\* C13 witness: a limiter has been created under the name of a deleted
\* instance, which is still deleted.
C13_Witness ==
    /\ last.op \in {"new", "create"}
    /\ \E i \in Insts :
          /\ objs[i].deleted
          /\ objs[i].name = last.name
          /\ i # last.inst
          /\ ~objs[last.inst].deleted

\* C14: the limiter the registry holds under a name carries that name and is
\* not deleted, every limiter that is not deleted is the one registered under
\* its name, and so no two limiters that are not deleted share a name.
C14_OneLimiterPerName ==
    /\ \A name \in RegistryNames :
          instances[name] # Null =>
              /\ instances[name] \in Insts
              /\ objs[instances[name]].name = name
              /\ ~objs[instances[name]].deleted
    /\ \A i \in Insts : ~objs[i].deleted => instances[objs[i].name] = i
    /\ \A i, j \in Insts :
          (~objs[i].deleted /\ ~objs[j].deleted /\ objs[i].name = objs[j].name) => i = j

\* C14 witness: both names are registered, to different limiters, after a
\* construction under one of them was refused.
C14_Witness ==
    /\ last.err = "DuplicateName"
    /\ instances["a"] # Null
    /\ instances["b"] # Null
    /\ instances["a"] # instances["b"]

\* C15 (as claimed): static check, attempt, reset, setRemaining, clear, cleanup
\* and delete, called with a name the registry does not hold, throw UnknownName
\* and change nothing; called with a registered name they do what the instance
\* method does on the registered limiter.
C15_StaticOpsResolveName ==
    [][\A name \in RegistryNames, source \in LifeSources :
          IF instances[name] = Null
          THEN (\/ StaticCheck(name, source)
                \/ StaticAttempt(name, source, 1)
                \/ StaticReset(name, source)
                \/ StaticSetRemaining(name, source, 1)
                \/ StaticClear(name)
                \/ StaticCleanup(name)
                \/ StaticDelete(name)) =>
                   /\ last' = Failed(Null, name, "UnknownName")
                   /\ objs' = objs
                   /\ instances' = instances
          ELSE /\ StaticCheck(name, source) => Check(instances[name], source)
               /\ StaticAttempt(name, source, 1) => Attempt(instances[name], source, 1)
               /\ StaticReset(name, source) => Reset(instances[name], source)
               /\ StaticSetRemaining(name, source, 1) =>
                      SetRemaining(instances[name], source, 1)
               /\ StaticClear(name) => Clear(instances[name])
               /\ StaticCleanup(name) => Cleanup(instances[name])
               /\ StaticDelete(name) => Delete(instances[name])]_vars

\* C16: a call either returns, or throws one of DuplicateName (the name is
\* registered), UnknownName (the name is not registered) and DeletedInstance
\* (the instance is deleted); a call that throws returns no AttemptResult and
\* leaves the registry and every limiter (deleted flag, limit, timeWindow,
\* entries) as they were.
C16_FailureChangesNothing ==
    [][/\ last'.err \in {"none", "DuplicateName", "UnknownName", "DeletedInstance"}
       /\ last'.op = "throw" <=> last'.err # "none"
       /\ last'.err # "none" =>
              /\ last'.res = NoResult
              /\ instances' = instances
              /\ objs' = objs
       /\ last'.err = "DuplicateName" => instances[last'.name] # Null
       /\ last'.err = "UnknownName" => instances[last'.name] = Null
       /\ last'.err = "DeletedInstance" =>
              (last'.inst \in Insts /\ objs[last'.inst].deleted)]_vars

\* C16 witness: a call has thrown while a limiter holds an entry and another
\* instance is deleted.
C16_Witness ==
    /\ last.err = "UnknownName"
    /\ \E i, j \in Insts :
          /\ ~objs[i].deleted
          /\ \E s \in Sources : objs[i].attempts[s] # NoEntry
          /\ objs[j].deleted

\* C17 (as claimed): cleanup() keeps every entry whose window has not expired
\* (windowStart + timeWindow * 1000 >= now) with its count and windowStart, and
\* check on such a source returns the same result after cleanup as before.
C17_CleanupKeepsLiveEntries ==
    [][last'.op = "cleanup" =>
          \A s \in Sources :
              LET i == last'.inst
                  entry == objs[i].attempts[s]
              IN  (entry # NoEntry /\ entry[2] + (objs[i].timeWindow * 1000) >= now) =>
                      /\ objs'[i].attempts[s] = entry
                      /\ CheckResult(objs'[i], i, s, now') = CheckResult(objs[i], i, s, now)]_vars

\* C18: cleanup() leaves no entry for a source whose window had expired
\* (windowStart + timeWindow * 1000 < now), so that check on it then returns
\* remaining == limit.
C18_CleanupRemovesExpired ==
    [][last'.op = "cleanup" =>
          LET i == last'.inst
          IN  /\ last'.args[1] = ExpiredSources(objs[i], now)
              /\ \A s \in last'.args[1] :
                    /\ objs'[i].attempts[s] = NoEntry
                    /\ CheckResult(objs'[i], i, s, now').remaining = objs'[i].limit]_vars

\* C18 witness: cleanup has run on a limiter that held an entry whose window
\* had expired, and the entry is gone.
C18_Witness ==
    /\ last.op = "cleanup"
    /\ last.args[1] # {}
    /\ \A s \in last.args[1] : Stored(LastInst, s) = NoEntry

\* C19 (as claimed): RateLimit.cleanup() without argument leaves the registry as
\* it was and, in every registered limiter, removes every entry whose window
\* had expired and keeps every other entry; limiters that are not registered
\* are left alone.
C19_CleanupAllKeepsLiveEntries ==
    [][(last'.op = "cleanupAll" /\ last'.name = Undefined) =>
          /\ instances' = instances
          /\ Len(objs') = Len(objs)
          /\ \A i \in Insts :
                IF instances[objs[i].name] = i
                THEN \A s \in Sources :
                        objs'[i].attempts[s] =
                            IF s \in ExpiredSources(objs[i], now)
                            THEN NoEntry ELSE objs[i].attempts[s]
                ELSE objs'[i] = objs[i]]_vars

\* C20: clear() leaves the limiter it runs on without entries, so that check
\* returns remaining == limit for each of its sources, and it changes nothing
\* else: not the limiter's name, limit, timeWindow or deleted flag, not any
\* other limiter, not the registry.
C20_ClearEmptiesOnlyItsLimiter ==
    [][last'.op = "clear" =>
          LET i == last'.inst
          IN  /\ \A s \in Sources :
                    /\ objs'[i].attempts[s] = NoEntry
                    /\ CheckResult(objs'[i], i, s, now').remaining = objs[i].limit
              /\ objs' = [objs EXCEPT ![i].attempts = [s \in Sources |-> NoEntry]]
              /\ instances' = instances]_vars

\* C20 witness: clear has emptied a limiter that held an entry while the
\* limiter of the other name holds one.
C20_Witness ==
    /\ last.op = "clear"
    /\ last.had
    /\ \E j \in Insts :
          /\ j # LastInst
          /\ ~objs[j].deleted
          /\ \E s \in Sources : objs[j].attempts[s] # NoEntry

\* C21: check(source) changes neither the store nor the registry: a source
\* without entry still has none afterwards, and an entry whose window has
\* expired stays as it is and is reported with its stored count.
C21_CheckIsReadOnly ==
    [][last'.op = "check" =>
          LET i == last'.inst
              entry == objs[i].attempts[last'.source]
          IN  /\ objs' = objs
              /\ instances' = instances
              /\ last'.had = (entry # NoEntry)
              /\ last'.res[1].remaining =
                     objs[i].limit - (IF entry = NoEntry THEN 0 ELSE entry[1])]_vars

\* C21 witness: check has reported the stored count of an entry whose window
\* had expired, and the entry is still stored.
C21_Witness ==
    /\ last.op = "check"
    /\ last.had
    /\ LastStored # NoEntry
    /\ LastStored[2] + (LastWindow * 1000) < now
    /\ LastStored[1] > 0
    /\ LastResult.remaining = LastLimit - LastStored[1]

C23_DeleteFreesTheName ==
    [][/\ last'.op = "delete" =>
              LET i == last'.inst
              IN  /\ ~objs[i].deleted
                  /\ objs' = [objs EXCEPT ![i].attempts = [s \in Sources |-> NoEntry],
                                          ![i].deleted = TRUE]
                  /\ instances' = [instances EXCEPT ![objs[i].name] = Null]
       /\ (last'.op \in {"new", "create"} /\ instances[last'.name] = Null) =>
              LET i == last'.inst
              IN  /\ i = Len(objs) + 1
                  /\ instances'[last'.name] = i
                  /\ objs'[i].name = last'.name
                  /\ objs'[i].limit = last'.args[1]
                  /\ ~objs'[i].deleted
                  /\ \A s \in Sources :
                        /\ objs'[i].attempts[s] = NoEntry
                        /\ CheckResult(objs'[i], i, s, now').remaining = last'.args[1]
       /\ last'.op = "get" => last'.inst = instances'[last'.name]]_vars

\* C23 witness: a limiter with another limit has been constructed under the
\* name of a deleted instance and is the registered one.
C23_Witness ==
    /\ last.op \in {"new", "create"}
    /\ instances[last.name] = last.inst
    /\ \E i \in Insts :
          /\ i < last.inst
          /\ objs[i].deleted
          /\ objs[i].name = last.name
          /\ objs[i].limit # objs[last.inst].limit

\* C24: the reset of every AttemptResult is the least integer r with
\* r * 1000 >= windowStart + timeWindow * 1000 - now, for the stored entry of
\* the source, where windowStart is now when the source has no entry; check on
\* a source without entry returns reset == timeWindow.
C24_ResetIsCeilOfWindowEnd ==
    last.res # NoResult =>
        LET windowStart == IF LastStored = NoEntry THEN now ELSE LastStored[2]
            ms == (windowStart + (LastWindow * 1000)) - now
            reset == LastResult.reset
        IN  /\ reset * 1000 >= ms
            /\ (reset - 1) * 1000 < ms
            /\ LastStored = NoEntry => reset = LastWindow

\* C24 witness: a result was returned for an entry whose window ended a
\* millisecond ago, with reset 0.
C24_Witness ==
    /\ last.res # NoResult
    /\ LastStored # NoEntry
    /\ (LastStored[2] + (LastWindow * 1000)) - now < 0
    /\ LastResult.reset = 0

\* C25 (as claimed): constructing a limiter with a settings argument leaves
\* the global RateLimit.settings and the settings of every other instance as
\* they were.
C25_SettingsArePerLimiter ==
    [][last'.op = "newWithSettings" =>
          /\ settings' = settings
          /\ \A i \in Insts : SettingsOf(i)' = SettingsOf(i)]_vars

\* C26: a request handled by the middleware of a limiter that is not deleted
\* records exactly one attempt of weight 1 for its source (the stored entry is
\* the one attempt(source) stores, every other entry as before) and carries
\* the result of that attempt; when the result allows, no response function is
\* invoked and next() is called (Express passes next; when the handler is
\* called without one it ends the response instead); when it does not allow,
\* the configured defaultResponse is invoked and the middleware does not call
\* next().
C26_MiddlewareMakesOneAttempt ==
    [][last'.op = "middleware" =>
          LET i == last'.inst
              s == last'.source
              hasNext == last'.args[1]
              outcome == last'.args[2]
              entry == IF objs[i].attempts[s] = NoEntry THEN <<0, now>>
                       ELSE objs[i].attempts[s]
              rolled == IF entry[2] + (objs[i].timeWindow * 1000) < now
                        THEN <<0, now>> ELSE entry
          IN  /\ ~objs[i].deleted
              /\ objs' = [objs EXCEPT ![i].attempts[s] = <<rolled[1] + 1, rolled[2]>>]
              /\ instances' = instances
              /\ last'.res[1].remaining = objs[i].limit - (rolled[1] + 1)
              /\ last'.res[1].allow = (last'.res[1].remaining > 0)
              /\ IF last'.res[1].allow
                 THEN /\ outcome.response = "none"
                      /\ outcome.next = hasNext
                      /\ outcome.end = ~hasNext
                 ELSE /\ outcome.response = settings.defaultResponse
                      /\ ~outcome.next
                      /\ ~outcome.end]_vars

\* C26 witness: the middleware has refused the second or a later request of
\* a source and handed it to a configured response function.
C26_Witness ==
    /\ last.op = "middleware"
    /\ ~LastResult.allow
    /\ last.args[2].response = "custom"
    /\ ~last.args[2].next
    /\ LastStored[1] >= 2

\* C27: an attempt made exactly at now == windowStart + timeWindow * 1000 does
\* not roll the window over: the weight is added to the stored count, the
\* windowStart is kept, and the result has reset == 0.
C27_NoRolloverAtWindowEnd ==
    (/\ last.op = "attempt"
     /\ last.pre # NoEntry
     /\ last.pre[2] + (LastWindow * 1000) = now) =>
        /\ LastStored = <<last.pre[1] + last.args[1], last.pre[2]>>
        /\ LastResult.remaining = LastLimit - (last.pre[1] + last.args[1])
        /\ LastResult.reset = 0

\* C27 witness: an attempt was added to an entry at the last instant of its
\* window.
C27_Witness ==
    /\ last.op = "attempt"
    /\ last.pre # NoEntry
    /\ last.pre[2] + (LastWindow * 1000) = now
    /\ last.pre[1] >= 1
    /\ LastStored[1] = last.pre[1] + 1

\* C28: the windowStart of an entry that stays stored changes only in an
\* attempt on its source that finds the window expired, and then to now;
\* attempt on a window that has not expired and setRemaining on an existing
\* entry keep it; an entry comes into being only by attempt or setRemaining on
\* its source, with windowStart == now.
C28_WindowStartIsFixed ==
    [][\A i \in Insts, s \in Sources :
          LET before == objs[i].attempts[s]
              after == objs'[i].attempts[s]
              mine == last'.inst = i /\ last'.source = s
          IN  /\ (before # NoEntry /\ after # NoEntry /\ after[2] # before[2]) =>
                     /\ mine
                     /\ last'.op = "attempt"
                     /\ before[2] + (objs[i].timeWindow * 1000) < now
                     /\ after[2] = now
              /\ (before = NoEntry /\ after # NoEntry) =>
                     /\ mine
                     /\ last'.op \in {"attempt", "setRemaining"}
                     /\ after[2] = now
              /\ (mine /\ last'.op = "setRemaining" /\ before # NoEntry) =>
                     after[2] = before[2]
              /\ (/\ mine
                  /\ last'.op = "attempt"
                  /\ before # NoEntry
                  /\ ~(before[2] + (objs[i].timeWindow * 1000) < now)) =>
                     after[2] = before[2]]_vars

\* C28 witness: an attempt made later in the window of its entry has left the
\* windowStart where it was.
C28_Witness ==
    /\ last.op = "attempt"
    /\ last.pre # NoEntry
    /\ last.pre[2] < now
    /\ ~(last.pre[2] + (LastWindow * 1000) < now)
    /\ LastStored[2] = last.pre[2]

\* C29 (as claimed): a cleanup() call changes no later attempt: for every
\* source, weight and clock reading from now on, the attempt stores the same
\* entry and returns the same remaining, allow and reset after the cleanup as
\* it would have without it.
C29_CleanupChangesNoResult ==
    [][last'.op = "cleanup" =>
          LET i == last'.inst
          IN  \A s \in Sources, w \in Weights, t \in Times :
                  t >= now =>
                      LET with == AttemptStore(objs'[i], s, w, t)
                          without == AttemptStore(objs[i], s, w, t)
                      IN  /\ with.attempts[s] = without.attempts[s]
                          /\ CheckResult(with, i, s, t) = CheckResult(without, i, s, t)]_vars

\* C30: assigning a value to limit changes nothing but the limit: every stored
\* (count, windowStart) stays, and check then returns the new limit and
\* remaining == new limit - count for every source, which is the remaining of
\* before plus the difference of the limits.
C30_LimitChangeKeepsCounts ==
    [][last'.op = "setLimit" =>
          LET i == last'.inst
              new == last'.args[1]
          IN  /\ objs' = [objs EXCEPT ![i].limit = new]
              /\ instances' = instances
              /\ \A s \in Sources :
                    LET before == CheckResult(objs[i], i, s, now)
                        after == CheckResult(objs'[i], i, s, now')
                        count == IF objs'[i].attempts[s] = NoEntry THEN 0
                                 ELSE objs'[i].attempts[s][1]
                    IN  /\ after.limit = new
                        /\ after.remaining = new - count
                        /\ after.remaining = before.remaining + (new - objs[i].limit)
                        /\ after.reset = before.reset]_vars

\* C30 witness: the limit has been lowered below a count stored under the
\* higher limit.
C30_Witness ==
    /\ last.op = "setLimit"
    /\ \E s \in Sources :
          /\ Stored(LastInst, s) # NoEntry
          /\ Stored(LastInst, s)[1] > LastLimit + MaxOver

\* C31: a check or attempt that is passed a callback invokes it exactly once
\* before it returns, with the AttemptResult it returns; attempt invokes it when
\* the incremented entry is already stored; a call without callback, and a call
\* that fails, invokes none.
C31_CallbackOnceWithTheResult ==
    /\ last.op \in {"checkCallback", "attemptCallback"} =>
          /\ Len(last.args[1]) = (IF last.args[2] THEN 1 ELSE 0)
          /\ \A k \in 1..Len(last.args[1]) :
                /\ <<last.args[1][k].result>> = last.res
                /\ last.args[1][k].stored = LastStored
    /\ last.op = "attemptCallback" =>
          /\ LastStored # NoEntry
          /\ LastResult.remaining = LastLimit - LastStored[1]
    /\ (last.op = "throw" /\ last.args # NoArgs) => last.args[1] = <<>>

\* C31 witness: an attempt with a callback has invoked it once, after a count
\* above its weight was stored.
C31_Witness ==
    /\ last.op = "attemptCallback"
    /\ last.args[2]
    /\ Len(last.args[1]) = 1
    /\ last.args[1][1].stored[1] > last.args[3]
    /\ last.args[1][1].result.remaining = LastLimit - last.args[1][1].stored[1]

\* C32 (as claimed): RateLimit.cleanup(name) with a name that is not registered,
\* the empty string included, throws UnknownName and removes no entry; a
\* clean-up of all limiters happens only in a call without name argument.
C32_CleanupAllOnlyWithoutName ==
    [][/\ last'.op = "cleanupAll" => last'.name = Undefined
       /\ (last'.op = "throw" /\ last'.err = "UnknownName") =>
              /\ objs' = objs
              /\ instances[last'.name] = Null]_vars

\* C33: in every state an instance is registered under its name exactly when
\* it is not deleted: get(name) of an instance in use returns that instance,
\* and the instance get or create has returned is never a deleted one.
C33_RegisteredIffNotDeleted ==
    /\ \A i \in Insts : (instances[objs[i].name] = i) <=> ~objs[i].deleted
    /\ \A i \in Insts : Active(i) => Get(objs[i].name) = i
    /\ \A name \in RegistryNames : Get(name) # Null => Active(Get(name))
    /\ (last.op \in {"get", "create"} /\ last.inst # Null) => Active(last.inst)

\* C33 witness: get has returned the limiter in use under a name that a deleted
\* instance carries too.
C33_Witness ==
    /\ last.op = "get"
    /\ last.inst # Null
    /\ \E i \in Insts : objs[i].deleted /\ objs[i].name = last.name /\ i # last.inst

\* C34: once an instance is deleted and another one is constructed under its
\* name, every call on the deleted instance, delete included, throws
\* DeletedInstance and leaves the new one registered under the name, with its
\* entries, limit and timeWindow as they were.
C34_StaleHandleLeavesSuccessor ==
    [][\A b \in Insts :
          (/\ last'.inst \in Insts
           /\ objs[last'.inst].deleted
           /\ Active(b)
           /\ objs[b].name = objs[last'.inst].name) =>
              /\ last'.err = "DeletedInstance"
              /\ last'.op = "throw"
              /\ instances'[objs[b].name] = b
              /\ objs'[b] = objs[b]]_vars

\* C34 witness: a call on the deleted instance has thrown while its successor
\* under the same name holds an entry and is registered.
C34_Witness ==
    /\ last.op = "throw"
    /\ last.err = "DeletedInstance"
    /\ \E b \in Insts :
          /\ b # last.inst
          /\ Active(b)
          /\ objs[b].name = objs[last.inst].name
          /\ instances[objs[b].name] = b
          /\ \E s \in Sources : Stored(b, s) # NoEntry

\* C35: with a clock that never goes back, every result of attempt has
\* 0 <= reset <= timeWindow: the window of the entry it returns is not over.
\* The result of check has reset <= timeWindow too, and no lower bound: on an
\* entry whose window ended a second ago or more it is negative.
C35_AttemptResetWithinWindow ==
    /\ last.op = "attempt" =>
          /\ 0 <= LastResult.reset
          /\ LastResult.reset <= LastWindow
          /\ LastStored[2] + WindowMs(LastWindow) >= now
    /\ last.op = "check" =>
          /\ LastResult.reset <= LastWindow
          /\ (LastStored # NoEntry /\ LastStored[2] + WindowMs(LastWindow) + 1000 <= now)
                 => LastResult.reset < 0

\* C35 witness: an attempt has returned reset == timeWindow on an entry for
\* which check would have returned a negative reset.
C35_Witness ==
    /\ last.op = "attempt"
    /\ last.pre # NoEntry
    /\ CeilSeconds((last.pre[2] + WindowMs(LastWindow)) - now) < 0
    /\ LastResult.reset = LastWindow

C38_SourcesAndLimitersIsolated ==
    [][last'.op \in {"attempt", "reset", "setRemaining"} =>
          \A i \in Insts, s \in Sources :
              (i # last'.inst \/ s # last'.source) =>
                  /\ objs'[i].attempts[s] = objs[i].attempts[s]
                  /\ \A t \in Times :
                        CheckResult(objs'[i], i, s, t) = CheckResult(objs[i], i, s, t)]_vars

\* C38 witness: reset has removed the entry of one source while the other
\* source of the limiter and the same source of another limiter hold entries.
C38_Witness ==
    /\ last.op = "reset"
    /\ last.had
    /\ LastStored = NoEntry
    /\ \E s \in Sources : s # last.source /\ Stored(last.inst, s) # NoEntry
    /\ \E i \in Insts : i # last.inst /\ Stored(i, last.source) # NoEntry

====
